---- MODULE Spec2Model ----
(***************************************************************************)
(* Model of the ethash-pow node's mining coordination (run_mining_svc, the *)
(* eth_getWork / eth_submitWork RPC handlers, send_result) and of the seal *)
(* verification of pow.rs.                                                 *)
(*                                                                         *)
(* Integers are scaled: a U256 is U256Bytes bytes wide, a u64 U64Bytes, a  *)
(* H256 is a sequence of HashLen bytes (as wide as a U256).  Bytes are     *)
(* real bytes (0..255).                                                    *)
(***************************************************************************)
EXTENDS Integers, Sequences, FiniteSets, TLC

\* ------------------------------------------------------------------ bounds
\* RPC calls issued in one run.
MaxCmds == 2
\* Buffer of the command channel (service.rs:167 asks for 1000), scaled.
ChannelBuffer == 1
\* Candidate blocks the proposal pipeline builds in one run.
MaxBuilds == 2
\* Blocks imported on top of the genesis block.
MaxBlocks == 2

\* ------------------------------------------------------- scaled data types
ByteBase == 256
U256Bytes == 3
U64Bytes == 2
HashLen == 3

RECURSIVE Pow(_, _)
Pow(b, n) == IF n = 0 THEN 1 ELSE b * Pow(b, n - 1)

U256Max == Pow(ByteBase, U256Bytes) - 1
U64Max == Pow(ByteBase, U64Bytes) - 1

\* Option<T>
None == [some |-> FALSE]
Some(x) == [some |-> TRUE, v |-> x]

\* Result<T, EthError>
Ok(x) == [ok |-> TRUE, val |-> x]
Err(e) == [ok |-> FALSE, err |-> e]

\* H256 values the model draws from (a byte string and its reverse).
Hashes == {<<0, 0, 1>>, <<1, 0, 0>>}
\* Candidates the proposal pipeline builds: block numbers in epoch 0 and in
\* epoch 1, both pre-hashes, two difficulties.
Candidates ==
    {[number |-> 1, pre_hash |-> <<0, 0, 1>>, difficulty |-> 1000000],
     [number |-> 30000, pre_hash |-> <<1, 0, 0>>, difficulty |-> 1000488]}
\* Solutions a miner submits: (nonce, pow_hash, mix_digest).
Solutions ==
    {[nonce |-> 0, pow_hash |-> <<0, 0, 1>>, mix_digest |-> <<1, 0, 0>>],
     [nonce |-> 1, pow_hash |-> <<1, 0, 0>>, mix_digest |-> <<0, 0, 1>>]}
\* Arguments eth_submitWork is called with.  The handler drops them, so one
\* triple stands for all.
RpcArgs ==
    {[nonce |-> 0, pow_hash |-> <<0, 0, 1>>, mix_digest |-> <<1, 0, 0>>]}
\* Values of the seal fields the SubmitWork arm does not set.
UnsetFields == {[difficulty |-> 0, timestamp |-> 0]}
\* Inputs of verify.
Nonces == {0, 1}
Numbers == {1, 30000}
Difficulties == {1000000, 1000488}
Timestamps == {100, 113}

Ids == 1..MaxCmds

\* U256::from(&[u8]): the bytes read as a big-endian number.
RECURSIVE U256_from_big_endian(_)
U256_from_big_endian(bytes) ==
    IF bytes = <<>> THEN 0
    ELSE U256_from_big_endian(SubSeq(bytes, 1, Len(bytes) - 1)) * ByteBase
         + bytes[Len(bytes)]

\* The number as `width` little-endian bytes (SCALE fixed-width integers).
RECURSIVE to_le_bytes(_, _)
to_le_bytes(n, width) ==
    IF width = 0 THEN <<>>
    ELSE <<n % ByteBase>> \o to_le_bytes(n \div ByteBase, width - 1)

RECURSIVE from_le_bytes(_)
from_le_bytes(bytes) ==
    IF bytes = <<>> THEN 0
    ELSE bytes[1] + ByteBase * from_le_bytes(Tail(bytes))

\* The number as `width` big-endian bytes ([u8; 32] from a U256, H256 from
\* a U256).
RECURSIVE to_be_bytes(_, _)
to_be_bytes(n, width) ==
    IF width = 0 THEN <<>>
    ELSE to_be_bytes(n \div ByteBase, width - 1) \o <<n % ByteBase>>

\* UniqueSaturatedInto::<u64>
unique_saturated_into_u64(n) == IF n > U64Max THEN U64Max ELSE n

\* ethash::difficulty_to_boundary: 2^256 / difficulty (the maximum for 1),
\* as a big-endian H256.
difficulty_to_boundary(d) ==
    to_be_bytes(IF d = 1 THEN U256Max ELSE (U256Max + 1) \div d, HashLen)

\* SeedHashCompute::hash_block_number: the hash function iterated once per
\* epoch, from the zero hash.  The hash function itself is the oracle's.
ETHASH_EPOCH_LENGTH == 30000
SeedStep(x) == (x * 5 + 3) % (U256Max + 1)
RECURSIVE SeedOfEpoch(_)
SeedOfEpoch(e) == IF e = 0 THEN 0 ELSE SeedStep(SeedOfEpoch(e - 1))
hash_block_number(nr) == SeedOfEpoch(nr \div ETHASH_EPOCH_LENGTH)


\* ------------------------------------------------------------------- state
VARIABLES
    \* MiningWorker behind Arc<Mutex<..>>
    build,        \* Option: the in-progress candidate's metadata
    lock,         \* holder of the worker mutex: "free" or "svc"
    generation,   \* candidates built so far (numbers the generations)
    \* the command channel
    queue,        \* ids of the commands in the channel, oldest first
    parked,       \* senders parked for backpressure, oldest first
    \* RPC calls: the command each built, its one-shot reply channel,
    \* the caller's position
    call,
    issued,       \* calls issued so far
    \* run_mining_svc
    pc,           \* "idle" (in next().await), "match", "getwork_reply",
                  \* "submit_locked", "closed"
    cur,          \* id of the command taken from the stream, 0 if none
    metadata,     \* the arm's local `metadata`
    \* history, for stating the properties
    processed,    \* ids in the order their arm completed
    hist,         \* per id: what the arm read and did
    \* PowAlgorithm::verify
    vin,          \* the arguments of a verify call
    vout,         \* Option: its result, None before the call
    voracle,      \* the oracle calls that verify call made, in order
    \* the chain backend (client) and the DifficultyEngine
    headers,      \* the imported headers; a block's hash is its index
    qlog,         \* the last two difficulty / calc_difficulty calls
    profile       \* the build: "release" or "debug" (overflow checks)

coordVars == <<build, lock, generation, queue, parked, call, issued,
               pc, cur, metadata, processed, hist>>
powVars == <<vin, vout, voracle>>
chainVars == <<headers, qlog, profile>>
vars == <<build, lock, generation, queue, parked, call, issued,
          pc, cur, metadata, processed, hist, vin, vout, voracle,
          headers, qlog, profile>>

\* `args` are the arguments the RPC was called with.
NoCall == [st |-> "none", kind |-> "none", nonce |-> 0, pow_hash |-> <<>>,
           mix_digest |-> <<>>, gen |-> 0, sender |-> "none",
           sent |-> <<>>, closed |-> FALSE, args |-> None]
NoHist == [meta |-> None, submit |-> "none", seal |-> <<>>, bgen |-> 0]
\* `of` is the accepted raw seal a corrupted seal was made from.
NoInput == [pre_hash |-> <<>>, seal |-> <<>>, difficulty |-> 0, of |-> <<>>]
\* The genesis header: number 0, no seal in its digest.
GenesisHeader == [number |-> 0, seal |-> None]

\* ------------------------------------------------------- WorkSeal and SCALE
\* crate::types::WorkSeal, fields in declaration order.
WorkSeal(nonce, pow_hash, mix_digest, header_nr, difficulty, timestamp) ==
    [nonce |-> nonce, pow_hash |-> pow_hash, mix_digest |-> mix_digest,
     header_nr |-> header_nr, difficulty |-> difficulty,
     timestamp |-> timestamp]

SealLen == U256Bytes + HashLen + HashLen + U64Bytes + U256Bytes + U64Bytes

\* #[derive(Encode)]: the fields' fixed-width encodings, concatenated.
encode(seal) ==
    to_le_bytes(seal.nonce, U256Bytes) \o seal.pow_hash \o seal.mix_digest
    \o to_le_bytes(seal.header_nr, U64Bytes)
    \o to_le_bytes(seal.difficulty, U256Bytes)
    \o to_le_bytes(seal.timestamp, U64Bytes)

\* #[derive(Decode)] on &mut &seal[..]: fails when the input runs out,
\* ignores what follows the last field.
decode(bytes) ==
    IF Len(bytes) < SealLen THEN Err("Decode")
    ELSE LET o1 == U256Bytes
             o2 == o1 + HashLen
             o3 == o2 + HashLen
             o4 == o3 + U64Bytes
             o5 == o4 + U256Bytes
         IN Ok(WorkSeal(from_le_bytes(SubSeq(bytes, 1, o1)),
                        SubSeq(bytes, o1 + 1, o2),
                        SubSeq(bytes, o2 + 1, o3),
                        from_le_bytes(SubSeq(bytes, o3 + 1, o4)),
                        from_le_bytes(SubSeq(bytes, o4 + 1, o5)),
                        from_le_bytes(SubSeq(bytes, o5 + 1, SealLen))))

\* ------------------------------------------------------------- send_result
\* rpc/ethash_rpc.rs send_result: takes the sender out of the Option and
\* sends; with the Option empty it only logs.
send_result_twice(c, result) ==
    IF c.sender = "some"
    THEN [c EXCEPT !.sent = Append(Append(@, result), result)]
    ELSE c

send_result(c, result) ==
    IF c.sender = "some"
    THEN [c EXCEPT !.sender = "taken", !.sent = Append(@, result)]
    ELSE c

\* End of a match arm: the command's `sender` goes out of scope.  A sender
\* still in its Option is dropped unsent, which closes the reply channel.
drop_sender(c) ==
    IF c.sender = "some"
    THEN [c EXCEPT !.sender = "dropped", !.closed = TRUE]
    ELSE c

\* ----------------------------------------------------------- MiningWorker
\* MiningWorker::metadata(): a copy of the in-progress candidate's metadata.
worker_metadata == build

\* The proposal pipeline (worker_task of start_mining_worker) installs a new
\* candidate under the worker lock, replacing the previous one wholesale.
on_build(n, h, d) ==
    /\ lock = "free"
    /\ generation < MaxBuilds
    /\ generation' = generation + 1
    /\ build' = Some([number |-> n, pre_hash |-> h, difficulty |-> d,
                      gen |-> generation + 1])
    /\ UNCHANGED <<lock, queue, parked, call, issued, pc, cur,
                   metadata, processed, hist, powVars, chainVars>>

\* ------------------------------------------------------------ RPC handlers
\* The generation a call is made against: the candidate in progress, 0 if
\* there is none.
CurrentGen == IF build.some THEN build.v.gen ELSE 0

\* sink.send(command).await? on a clone of command_sink.  A closed channel
\* fails the send and the command is dropped with it.  Otherwise the message
\* is queued at once (every sender owns one slot beyond the buffer) and the
\* sender stays parked until the receiver has taken a message when the queue
\* then holds more than the buffer.
Enqueue_lossy(id, c) ==
    IF pc = "closed"
    THEN /\ call' = [call EXCEPT ![id] =
                        [c EXCEPT !.st = "senderr", !.sender = "dropped",
                                  !.closed = TRUE]]
         /\ UNCHANGED <<queue, parked>>
    ELSE IF Len(queue) + 1 > ChannelBuffer
         THEN /\ call' = [call EXCEPT ![id] = [c EXCEPT !.st = "awaiting"]]
              /\ UNCHANGED <<queue, parked>>
         ELSE /\ queue' = Append(queue, id)
              /\ parked' = parked
              /\ call' = [call EXCEPT ![id] = [c EXCEPT !.st = "awaiting"]]

Enqueue(id, c) ==
    IF pc = "closed"
    THEN /\ call' = [call EXCEPT ![id] =
                        [c EXCEPT !.st = "senderr", !.sender = "dropped",
                                  !.closed = TRUE]]
         /\ UNCHANGED <<queue, parked>>
    ELSE /\ queue' = Append(queue, id)
         /\ IF Len(queue) + 1 > ChannelBuffer
            THEN /\ parked' = Append(parked, id)
                 /\ call' = [call EXCEPT ![id] = [c EXCEPT !.st = "parked"]]
            ELSE /\ parked' = parked
                 /\ call' = [call EXCEPT ![id] = [c EXCEPT !.st = "awaiting"]]

NewCommand(kind, nonce, pow_hash, mix_digest) ==
    [st |-> "none", kind |-> kind, nonce |-> nonce, pow_hash |-> pow_hash,
     mix_digest |-> mix_digest, gen |-> CurrentGen, sender |-> "some",
     sent |-> <<>>, closed |-> FALSE, args |-> None]

eth_getWork ==
    /\ issued < MaxCmds
    /\ issued' = issued + 1
    /\ Enqueue(issued + 1, NewCommand("GetWork", 0, <<>>, <<>>))
    /\ UNCHANGED <<build, lock, generation, pc, cur, metadata,
                   processed, hist, powVars, chainVars>>

\* eth_submitWork builds SubmitWork { sender } and nothing else: its three
\* arguments go nowhere.  The nonce, pow_hash and mix_digest run_mining_svc
\* destructures from the command have no source in the handler: they are
\* some solution p, whatever the arguments were.
eth_submitWork(nonce, pow_hash, mix_digest) ==
    /\ issued < MaxCmds
    /\ issued' = issued + 1
    /\ \E p \in Solutions :
          Enqueue(issued + 1,
                  [NewCommand("SubmitWork", p.nonce, p.pow_hash,
                              p.mix_digest)
                   EXCEPT !.args = Some([nonce |-> nonce,
                                         pow_hash |-> pow_hash,
                                         mix_digest |-> mix_digest])])
    /\ UNCHANGED <<build, lock, generation, pc, cur, metadata,
                   processed, hist, powVars, chainVars>>

\* EtheminerCmd::SubmitHashrate sent by a holder of the command sink.
send_SubmitHashrate ==
    /\ issued < MaxCmds
    /\ issued' = issued + 1
    /\ Enqueue(issued + 1, NewCommand("SubmitHashrate", 0, <<>>, <<>>))
    /\ UNCHANGED <<build, lock, generation, pc, cur, metadata,
                   processed, hist, powVars, chainVars>>

\* receiver.await? in the handler: the value once one was sent, Canceled once
\* the sender was dropped unsent.
receiver_await(id) ==
    /\ call[id].st = "awaiting"
    /\ \/ /\ call[id].sent # <<>>
          /\ call' = [call EXCEPT ![id].st = "got"]
       \/ /\ call[id].sent = <<>>
          /\ call[id].closed
          /\ call' = [call EXCEPT ![id].st = "cancelled"]
    /\ UNCHANGED <<build, lock, generation, queue, parked, issued,
                   pc, cur, metadata, processed, hist, powVars, chainVars>>

\* ---------------------------------------------------------- run_mining_svc
\* commands_stream.next(): the oldest queued command and the rest.
stream_next_newest(q) ==
    [item |-> q[Len(q)], rest |-> SubSeq(q, 1, Len(q) - 1)]

stream_next(q) == [item |-> Head(q), rest |-> Tail(q)]

\* `while let Some(command) = commands_stream.next().await`: a command is
\* taken from the channel; taking it unparks the longest-parked sender.
recv_command ==
    /\ pc = "idle"
    /\ queue # <<>>
    /\ cur' = stream_next(queue).item
    /\ queue' = stream_next(queue).rest
    /\ IF parked # <<>>
       THEN /\ parked' = Tail(parked)
            /\ call' = [call EXCEPT ![Head(parked)].st = "awaiting"]
       ELSE UNCHANGED <<parked, call>>
    /\ pc' = "match"
    /\ UNCHANGED <<build, lock, generation, issued, metadata,
                   processed, hist, powVars, chainVars>>

Work_of_little_endian(m) ==
    LET nr == unique_saturated_into_u64(m.number)
        tmp == to_be_bytes(m.difficulty, U256Bytes)
        tt == difficulty_to_boundary(U256_from_big_endian(tmp))
    IN [pow_hash |-> from_le_bytes(m.pre_hash),
        seed_hash |-> hash_block_number(nr),
        target |-> U256_from_big_endian(tt),
        number |-> Some(nr)]

\* The Work of the GetWork arm, from one metadata value.
Work_of(m) ==
    LET nr == unique_saturated_into_u64(m.number)
        tmp == to_be_bytes(m.difficulty, U256Bytes)
        tt == difficulty_to_boundary(U256_from_big_endian(tmp))
    IN [pow_hash |-> U256_from_big_endian(m.pre_hash),
        seed_hash |-> hash_block_number(nr),
        target |-> U256_from_big_endian(tt),
        number |-> Some(nr)]

\* The reply of the GetWork arm for the metadata it read.
GetWorkArm(meta) ==
    IF meta.some THEN Ok(Work_of(meta.v)) ELSE Err("NoWork")

getwork_read_taking ==
    /\ pc = "match"
    /\ call[cur].kind = "GetWork"
    /\ lock = "free"
    /\ metadata' = worker_metadata
    /\ build' = None
    /\ hist' = [hist EXCEPT ![cur].meta = worker_metadata]
    /\ pc' = "getwork_reply"
    /\ UNCHANGED <<lock, generation, queue, parked, call,
                   issued, cur, processed, powVars, chainVars>>

\* GetWork, `let metadata = worker.lock().metadata();`: the lock is taken
\* for this statement only.
getwork_read ==
    /\ pc = "match"
    /\ call[cur].kind = "GetWork"
    /\ lock = "free"
    /\ metadata' = worker_metadata
    /\ hist' = [hist EXCEPT ![cur].meta = worker_metadata]
    /\ pc' = "getwork_reply"
    /\ UNCHANGED <<build, lock, generation, queue, parked, call,
                   issued, cur, processed, powVars, chainVars>>

\* GetWork, the rest of the arm: builds the reply from the local metadata
\* and sends it.
getwork_reply ==
    /\ pc = "getwork_reply"
    /\ call' = [call EXCEPT ![cur] =
                   drop_sender(send_result(@, GetWorkArm(metadata)))]
    /\ processed' = Append(processed, cur)
    /\ pc' = "idle"
    /\ cur' = 0
    /\ metadata' = None
    /\ UNCHANGED <<build, lock, generation, queue, parked, issued,
                   hist, powVars, chainVars>>

\* MiningWorker::submit: takes the in-progress build, attaches the seal and
\* hands the block to the import; `imported` is the import's verdict.
worker_submit(b, seal_bytes, imported) ==
    [build |-> None,
     result |-> b.some /\ imported,
     seal |-> seal_bytes,
     gen |-> IF b.some THEN b.v.gen ELSE 0]

SubmitWorkArm_unchecked(c, meta, d, t) ==
    [submits |-> TRUE,
     seal |-> WorkSeal(c.nonce, c.pow_hash, c.mix_digest,
                       IF meta.some
                       THEN unique_saturated_into_u64(meta.v.number) ELSE 0,
                       d, t),
     reply |-> Ok(TRUE)]

SubmitWorkArm_swapped(c, meta, d, t) ==
    IF meta.some
    THEN [submits |-> TRUE,
          seal |-> WorkSeal(c.nonce, c.mix_digest, c.pow_hash,
                            unique_saturated_into_u64(meta.v.number), d, t),
          reply |-> Ok(TRUE)]
    ELSE [submits |-> FALSE,
          seal |-> WorkSeal(0, <<>>, <<>>, 0, 0, 0),
          reply |-> Err("NoMetaData")]

\* What the SubmitWork arm does for command c with the metadata it read:
\* whether it calls submit, with which seal, and what it replies.  The arm
\* sets four fields of the seal; d and t stand for the other two.
SubmitWorkArm(c, meta, d, t) ==
    IF meta.some
    THEN [submits |-> TRUE,
          seal |-> WorkSeal(c.nonce, c.pow_hash, c.mix_digest,
                            unique_saturated_into_u64(meta.v.number), d, t),
          reply |-> Ok(TRUE)]
    ELSE [submits |-> FALSE,
          seal |-> WorkSeal(0, <<>>, <<>>, 0, 0, 0),
          reply |-> Err("NoMetaData")]

submitwork_lock_snapshot ==
    /\ pc = "match"
    /\ call[cur].kind = "SubmitWork"
    /\ lock = "free"
    /\ metadata' = worker_metadata
    /\ hist' = [hist EXCEPT ![cur].meta = worker_metadata]
    /\ pc' = "submit_locked"
    /\ UNCHANGED <<build, lock, generation, queue, parked, call, issued,
                   cur, processed, powVars, chainVars>>

submitwork_lock_unlocked ==
    /\ pc = "match"
    /\ call[cur].kind = "SubmitWork"
    /\ metadata' = worker_metadata
    /\ hist' = [hist EXCEPT ![cur].meta = worker_metadata]
    /\ pc' = "submit_locked"
    /\ UNCHANGED <<build, lock, generation, queue, parked, call, issued,
                   cur, processed, powVars, chainVars>>

\* SubmitWork, `let mut worker = worker.lock(); let metadata =
\* worker.metadata();`: the guard lives to the end of the arm.
submitwork_lock ==
    /\ pc = "match"
    /\ call[cur].kind = "SubmitWork"
    /\ lock = "free"
    /\ lock' = "svc"
    /\ metadata' = worker_metadata
    /\ hist' = [hist EXCEPT ![cur].meta = worker_metadata]
    /\ pc' = "submit_locked"
    /\ UNCHANGED <<build, generation, queue, parked, call, issued,
                   cur, processed, powVars, chainVars>>

\* SubmitWork, the rest of the arm, under the lock.
submitwork_finish ==
    /\ pc = "submit_locked"
    /\ \E imported \in BOOLEAN, u \in UnsetFields :
         LET arm == SubmitWorkArm(call[cur], metadata, u.difficulty,
                                  u.timestamp)
             sub == worker_submit(build, encode(arm.seal), imported)
         IN /\ IF arm.submits
               THEN /\ build' = sub.build
                    /\ hist' = [hist EXCEPT ![cur].submit =
                                    IF sub.result THEN "ok" ELSE "failed",
                                  ![cur].seal = sub.seal,
                                  ![cur].bgen = sub.gen]
               ELSE UNCHANGED <<build, hist>>
            /\ call' = [call EXCEPT ![cur] =
                           drop_sender(send_result(@, arm.reply))]
    /\ processed' = Append(processed, cur)
    /\ lock' = "free"
    /\ pc' = "idle"
    /\ cur' = 0
    /\ metadata' = None
    /\ UNCHANGED <<generation, queue, parked, issued, powVars, chainVars>>

\* SubmitHashrate: the arm is empty; the command is dropped at its end.
submithashrate_arm ==
    /\ pc = "match"
    /\ call[cur].kind = "SubmitHashrate"
    /\ call' = [call EXCEPT ![cur] = drop_sender(@)]
    /\ processed' = Append(processed, cur)
    /\ pc' = "idle"
    /\ cur' = 0
    /\ UNCHANGED <<build, lock, generation, queue, parked, issued,
                   metadata, hist, powVars, chainVars>>

drop_command_leaked(c) == c

\* A command still in the channel when the receiver is dropped is dropped
\* with it, its sender unsent.
drop_command(c) == drop_sender(c)

InQueue(id) == \E i \in 1..Len(queue) : queue[i] = id

task_dropped_replying ==
    /\ pc = "idle"
    /\ pc' = "closed"
    /\ call' = [id \in Ids |->
                  LET c == IF InQueue(id)
                           THEN drop_command(send_result(call[id],
                                                         Err("NoWork")))
                           ELSE call[id]
                  IN IF c.st = "parked" THEN [c EXCEPT !.st = "awaiting"]
                     ELSE c]
    /\ queue' = <<>>
    /\ parked' = <<>>
    /\ UNCHANGED <<build, lock, generation, issued, cur, metadata,
                   processed, hist, powVars, chainVars>>

\* The task running run_mining_svc is dropped at its await (the task manager
\* shuts down): commands_stream closes and drops what it still holds; a
\* parked sender's send completes.  This is the only way the stream closes
\* while a call is pending: a handler keeps its clone of command_sink until
\* its reply arrived, and next() yields None only when no sender is left.
task_dropped ==
    /\ pc = "idle"
    /\ pc' = "closed"
    /\ call' = [id \in Ids |->
                  LET c == IF InQueue(id) THEN drop_command(call[id])
                           ELSE call[id]
                  IN IF c.st = "parked" THEN [c EXCEPT !.st = "awaiting"]
                     ELSE c]
    /\ queue' = <<>>
    /\ parked' = <<>>
    /\ UNCHANGED <<build, lock, generation, issued, cur, metadata,
                   processed, hist, powVars, chainVars>>

\* ------------------------------------------------------------ specification
InitCoord ==
    /\ build = None
    /\ lock = "free"
    /\ generation = 0
    /\ queue = <<>>
    /\ parked = <<>>
    /\ call = [id \in Ids |-> NoCall]
    /\ issued = 0
    /\ pc = "idle"
    /\ cur = 0
    /\ metadata = None
    /\ processed = <<>>
    /\ hist = [id \in Ids |-> NoHist]

InitChainIdle ==
    /\ headers = <<GenesisHeader>>
    /\ qlog = <<>>
    /\ profile = "release"

Init ==
    /\ InitCoord
    /\ vin = NoInput
    /\ vout = None
    /\ voracle = <<>>
    /\ InitChainIdle

Pipeline ==
    \E m \in Candidates : on_build(m.number, m.pre_hash, m.difficulty)

Callers ==
    \/ eth_getWork
    \/ \E a \in RpcArgs :
          eth_submitWork(a.nonce, a.pow_hash, a.mix_digest)
    \/ send_SubmitHashrate

Receivers == \E id \in Ids : receiver_await(id)

Coordinator ==
    \/ recv_command
    \/ getwork_read
    \/ getwork_reply
    \/ submitwork_lock
    \/ submitwork_finish
    \/ submithashrate_arm

Next ==
    \/ Pipeline
    \/ Callers
    \/ Receivers
    \/ Coordinator
    \/ task_dropped

Spec == Init /\ [][Next]_vars

\* The executor polls the run_mining_svc task while it can take a step and a
\* handler's future once its reply channel has resolved; nothing obliges a
\* client to call, the pipeline to build or the node to shut down.
FairSpec ==
    /\ Spec
    /\ WF_vars(Coordinator)
    /\ \A id \in Ids : WF_vars(receiver_await(id))

\* ------------------------------------------------------------------ pow.rs
\* The number as a big-endian H256.
H256_of(n) == to_be_bytes(n, HashLen)

\* EthashManager::compute_light(block number, pre-hash, nonce): the hashing
\* oracle, a deterministic function of its three arguments.
compute_light(header_nr, pre_hash, nonce) ==
    LET h == (3 * U256_from_big_endian(pre_hash) + 5 * nonce + 7 * header_nr)
             % Pow(ByteBase, HashLen)
    IN [mix_hash |-> H256_of(h),
        value |-> H256_of((31 * h + 17) % Pow(ByteBase, HashLen))]

\* ethash::boundary_to_difficulty: 2^256 / boundary, the maximum for <= 1.
boundary_to_difficulty(boundary) ==
    LET b == U256_from_big_endian(boundary)
    IN IF b <= 1 THEN U256Max ELSE (U256Max + 1) \div b

\* EthashAlgorithm::verify_seal (MinimalEthashAlgorithm's is the same code).
verify_seal(seal) ==
    LET pre_hash == seal.pow_hash
        mix_digest == seal.mix_digest
        result == compute_light(seal.header_nr, pre_hash, seal.nonce)
        mix == result.mix_hash
        difficulty == boundary_to_difficulty(result.value)
    IN IF mix # mix_digest THEN Err("MismatchedH256SealElement")
       ELSE Ok(TRUE)

\* The oracle calls verify_seal makes, in order.
verify_seal_oracle(seal) ==
    <<[header_nr |-> seal.header_nr, pre_hash |-> seal.pow_hash,
       nonce |-> seal.nonce]>>

verify_propagating(pre_hash, raw_seal, difficulty) ==
    LET decoded == decode(raw_seal)
    IN IF ~decoded.ok THEN decoded
       ELSE verify_seal(decoded.val)

\* PowAlgorithm::verify of EthashAlgorithm (and of MinimalEthashAlgorithm).
verify(pre_hash, raw_seal, difficulty) ==
    LET decoded == decode(raw_seal)
    IN IF ~decoded.ok THEN Ok(FALSE)
       ELSE IF ~verify_seal(decoded.val).ok THEN Ok(FALSE)
       ELSE Ok(TRUE)

\* The oracle calls one verify call makes, in order.
verify_oracle(pre_hash, raw_seal, difficulty) ==
    LET decoded == decode(raw_seal)
    IN IF ~decoded.ok THEN <<>> ELSE verify_seal_oracle(decoded.val)

\* Mix digests a seal may claim: every oracle output, and one that is none.
Mixes ==
    {compute_light(nr, h, n).mix_hash :
        nr \in Numbers, h \in Hashes, n \in Nonces} \cup {<<0, 0, 0>>}

Seals ==
    {WorkSeal(n, h, m, nr, d, t) :
        n \in Nonces, h \in Hashes, m \in Mixes, nr \in Numbers,
        d \in Difficulties, t \in Timestamps}

\* Raw seals: an encoded seal, one cut short, one with a byte too many.
RawSeals ==
    {encode(s) : s \in Seals}
    \cup {SubSeq(encode(s), 1, SealLen - 1) : s \in Seals}
    \cup {encode(s) \o <<0>> : s \in Seals}

VerifyInputs ==
    {[pre_hash |-> h, seal |-> r, difficulty |-> d, of |-> <<>>] :
        h \in Hashes, r \in RawSeals, d \in Difficulties}

\* Values a corrupted byte takes.
CorruptBytes == {0, 1, 255}

\* The import path calls verify on a header's pre-hash and seal.
verify_call ==
    /\ vout = None
    /\ vout' = Some(verify(vin.pre_hash, vin.seal, vin.difficulty))
    /\ voracle' = verify_oracle(vin.pre_hash, vin.seal, vin.difficulty)
    /\ UNCHANGED <<coordVars, vin, chainVars>>

\* The import path is handed an accepted seal with byte i changed to b, for
\* the same block.
verify_corrupted(i, b) ==
    /\ vout = Some(Ok(TRUE))
    /\ vin.of = <<>>
    /\ i \in 1..Len(vin.seal)
    /\ b # vin.seal[i]
    /\ LET raw == [vin.seal EXCEPT ![i] = b]
       IN /\ vin' = [vin EXCEPT !.seal = raw, !.of = vin.seal]
          /\ vout' = Some(verify(vin.pre_hash, raw, vin.difficulty))
          /\ voracle' = verify_oracle(vin.pre_hash, raw, vin.difficulty)
    /\ UNCHANGED <<coordVars, chainVars>>

InitPow ==
    /\ InitCoord
    /\ vin \in VerifyInputs
    /\ vout = None
    /\ voracle = <<>>
    /\ InitChainIdle

NextPow ==
    \/ verify_call
    \/ \E i \in 1..(SealLen + 1), b \in CorruptBytes : verify_corrupted(i, b)

SpecPow == InitPow /\ [][NextPow]_vars

\* -------------------------------------------------------- DifficultyEngine
\* EthashAlgorithm::new
minimum_difficulty == 1000000
difficulty_bound_divisor == 2048
duration_limit == 13

\* A panic of the running call (arithmetic overflow).
Panicked == Err("panic: arithmetic overflow")

\* u64 `+`: wraps in a release build, panics where overflow checks are on.
u64_add(a, b) ==
    IF a + b <= U64Max THEN Ok(a + b)
    ELSE IF profile = "release" THEN Ok((a + b) % (U64Max + 1))
    ELSE Panicked

\* U256 `+` (uint crate): panics on overflow in every build.
U256_add(a, b) == IF a + b <= U256Max THEN Ok(a + b) ELSE Panicked

\* self.client.header(BlockId::hash(hash)): `up` is whether the backend
\* answers; a hash that is no block's index is unknown.
client_header(hash, up) ==
    IF ~up THEN Err("Backend")
    ELSE IF hash \in 1..Len(headers) THEN Ok(Some(headers[hash]))
    ELSE Ok(None)

\* sc_consensus_pow::fetch_seal on the header's last digest log.
fetch_seal(header) ==
    IF header.seal.some THEN Ok(header.seal.v) ELSE Err("HeaderUnsealed")

unsealed_strict(header, err) == Err("Other")

unsealed_lenient(header, err) == Ok(minimum_difficulty)

\* The Err arm of fetch_seal: the minimum for the genesis block.
unsealed(header, err) ==
    LET nr == unique_saturated_into_u64(header.number)
    IN IF nr = 0 THEN Ok(minimum_difficulty) ELSE Err("Other")

\* PowAlgorithm::difficulty of EthashAlgorithm.
difficulty(hash, up) ==
    LET found == client_header(hash, up)
    IN IF ~found.ok THEN Err("Other")
       ELSE IF ~found.val.some THEN Err("Other")
       ELSE LET header == found.val.v
                raw == fetch_seal(header)
            IN IF ~raw.ok THEN unsealed(header, raw.err)
               ELSE LET seal == decode(raw.val)
                    IN IF ~seal.ok THEN Err("Other")
                       ELSE Ok(seal.val.difficulty)

cmp_max_dropped(a, b) == b

\* cmp::max
cmp_max(a, b) == IF a >= b THEN a ELSE b

\* calc_difficulty, from `let min_difficulty` on: the retarget rule.
retarget(parent_seal, now) ==
    LET min_difficulty == minimum_difficulty
        limit == u64_add(parent_seal.timestamp, duration_limit)
        adjust == parent_seal.difficulty \div difficulty_bound_divisor
    IN IF ~limit.ok THEN limit
       ELSE LET target == IF now >= limit.val
                          THEN Ok(parent_seal.difficulty - adjust)
                          ELSE U256_add(parent_seal.difficulty, adjust)
            IN IF ~target.ok THEN target
               ELSE Ok(cmp_max(min_difficulty, target.val))

\* PowAlgorithm::calc_difficulty of EthashAlgorithm; `now` is the clock.
calc_difficulty(parent, now, up) ==
    LET found == client_header(parent, up)
    IN IF ~found.ok THEN Err("Other")
       ELSE IF ~found.val.some THEN Ok(minimum_difficulty)
       ELSE LET parent_header == found.val.v
                raw == fetch_seal(parent_header)
            IN IF ~raw.ok THEN unsealed(parent_header, raw.err)
               ELSE LET parent_seal == decode(raw.val)
                    IN IF ~parent_seal.ok THEN Err("Other")
                       ELSE retarget(parent_seal.val, now)

\* Difficulty fields of the seals blocks arrive with: zero, the minimum, the
\* largest U256.
ChainDifficulties == {0, minimum_difficulty, U256Max}
\* Their timestamps: an ordinary one and one within duration_limit of the
\* largest u64.
ChainTimestamps == {100, U64Max - 5}
\* Clock readings: before the ordinary timestamp, one second short of the
\* duration limit after it, exactly the limit after it.
Nows == {5, 112, 113}

\* Seals of arriving blocks: the oracle's mix digest, and one that is not.
ChainSeals ==
    {WorkSeal(0, <<0, 0, 1>>, m, 1, d, t) :
        m \in {compute_light(1, <<0, 0, 1>>, 0).mix_hash, <<0, 0, 0>>},
        d \in ChainDifficulties, t \in ChainTimestamps}

\* The last two calls.
Last2(log) == IF Len(log) > 2 THEN Tail(log) ELSE log

\* PowBlockImport: asks the algorithm for the required difficulty, has it
\* verify the seal and stores the header when verify accepts.
import_block(pre_hash, raw_seal) ==
    /\ Len(headers) <= MaxBlocks
    /\ LET required == difficulty(Len(headers), TRUE)
       IN /\ required.ok
          /\ verify(pre_hash, raw_seal, required.val) = Ok(TRUE)
    /\ headers' = Append(headers, [number |-> Len(headers),
                                   seal |-> Some(raw_seal)])
    /\ UNCHANGED <<coordVars, powVars, qlog, profile>>

difficulty_call(hash, up) ==
    /\ qlog' = Last2(Append(qlog, [op |-> "difficulty", hash |-> hash,
                                   now |-> 0, up |-> up,
                                   result |-> difficulty(hash, up)]))
    /\ UNCHANGED <<coordVars, powVars, headers, profile>>

calc_difficulty_call(parent, now, up) ==
    /\ qlog' = Last2(Append(qlog, [op |-> "calc_difficulty", hash |-> parent,
                                   now |-> now, up |-> up,
                                   result |-> calc_difficulty(parent, now,
                                                              up)]))
    /\ UNCHANGED <<coordVars, powVars, headers, profile>>

InitChain ==
    /\ InitCoord
    /\ vin = NoInput
    /\ vout = None
    /\ voracle = <<>>
    /\ headers = <<GenesisHeader>>
    /\ qlog = <<>>
    /\ profile \in {"release", "debug"}

\* A failing backend answers every hash alike: one call stands for all.
NextChain ==
    \/ \E s \in ChainSeals : import_block(s.pow_hash, encode(s))
    \/ \E hash \in 0..Len(headers) : difficulty_call(hash, TRUE)
    \/ difficulty_call(0, FALSE)
    \/ \E parent \in 0..Len(headers), now \in Nows :
          calc_difficulty_call(parent, now, TRUE)
    \/ calc_difficulty_call(0, 0, FALSE)

SpecChain == InitChain /\ [][NextChain]_vars

\* Headers a backend may hold that did not come through this engine's
\* import: one without a seal of this engine, one whose seal is too short to
\* decode, and a sealed one for comparison.
ForeignHeaders ==
    LET raw == encode(WorkSeal(0, <<0, 0, 1>>, <<0, 0, 0>>, 1,
                               minimum_difficulty, 100))
    IN {[number |-> 1, seal |-> None],
        [number |-> 1, seal |-> Some(SubSeq(raw, 1, SealLen - 1))],
        [number |-> 1, seal |-> Some(raw)]}

\* difficulty and calc_difficulty as functions of the backend's content.
InitBackend ==
    /\ InitCoord
    /\ vin = NoInput
    /\ vout = None
    /\ voracle = <<>>
    /\ headers \in {<<GenesisHeader, h>> : h \in ForeignHeaders}
    /\ qlog = <<>>
    /\ profile \in {"release", "debug"}

NextBackend ==
    \/ \E hash \in 0..Len(headers) : difficulty_call(hash, TRUE)
    \/ difficulty_call(0, FALSE)
    \/ \E parent \in 0..Len(headers), now \in Nows :
          calc_difficulty_call(parent, now, TRUE)
    \/ calc_difficulty_call(0, 0, FALSE)

SpecBackend == InitBackend /\ [][NextBackend]_vars

\* ------------------------------------------------------------------ claims
Processed(id) == \E i \in 1..Len(processed) : processed[i] = id
Pending(id) == call[id].st \in {"parked", "awaiting"}
Settled(id) == call[id].st \in {"got", "cancelled"}

\* C1: every command run_mining_svc has taken from the queue and processed
\* has had exactly one value delivered on its reply channel.
C1_ProcessedRepliedOnce ==
    \A id \in Ids : Processed(id) => Len(call[id].sent) = 1

\* C2: no reply channel is ever signaled more than once.
C2_AtMostOneReply ==
    \A id \in Ids : Len(call[id].sent) <= 1

C2_Witness ==
    \E a, b \in Ids :
        /\ a # b
        /\ Processed(a) /\ Len(call[a].sent) = 1
        /\ Processed(b) /\ Len(call[b].sent) = 1

\* C3: verify answers true only if the seal's mix digest is the oracle's mix
\* digest for the pre_hash handed to verify, the seal's header_nr and nonce.
C3_VerifyBindsPreHash ==
    (vout.some /\ vout.v = Ok(TRUE)) =>
        LET seal == decode(vin.seal).val
        IN seal.mix_digest =
              compute_light(seal.header_nr, vin.pre_hash, seal.nonce).mix_hash

\* C4: of two SubmitWork commands issued against the same in-progress
\* candidate, at most one finalizes and at most one is answered Ok(true).
C4_OneSubmitPerGeneration ==
    \A a, b \in Ids :
        (/\ a # b
         /\ call[a].kind = "SubmitWork" /\ call[b].kind = "SubmitWork"
         /\ call[a].gen # 0 /\ call[a].gen = call[b].gen)
        => /\ ~(hist[a].submit = "ok" /\ hist[b].submit = "ok")
           /\ ~(call[a].sent = <<Ok(TRUE)>> /\ call[b].sent = <<Ok(TRUE)>>)

\* C5: a SubmitWork caller is answered Ok(true) only when MiningWorker.submit
\* reported that finalization succeeded.
C5_OkOnlyOnFinalized ==
    \A id \in Ids :
        (call[id].kind = "SubmitWork" /\ call[id].sent = <<Ok(TRUE)>>)
        => hist[id].submit = "ok"

\* C6: GetWork answers Err(NoWork) exactly when the worker had no metadata
\* when the command was processed, and otherwise Ok(Work) whose pow_hash,
\* target, seed_hash and number all come from that one metadata value.
C6_GetWorkReply ==
    \A id \in Ids :
        (call[id].kind = "GetWork" /\ Processed(id)) =>
            LET r == call[id].sent[1]
                m == hist[id].meta
            IN /\ Len(call[id].sent) = 1
               /\ IF m.some
                  THEN /\ r.ok
                       /\ r.val.pow_hash =
                             (m.v.pre_hash[1] * ByteBase + m.v.pre_hash[2])
                             * ByteBase + m.v.pre_hash[3]
                       /\ r.val.target = (U256Max + 1) \div m.v.difficulty
                       /\ r.val.seed_hash =
                             SeedOfEpoch(m.v.number \div ETHASH_EPOCH_LENGTH)
                       /\ r.val.number = Some(m.v.number)
                  ELSE /\ ~r.ok
                       /\ r.err = "NoWork"

C6_Witness ==
    \E a, b \in Ids :
        /\ call[a].kind = "GetWork" /\ Processed(a) /\ ~hist[a].meta.some
        /\ call[b].kind = "GetWork" /\ Processed(b) /\ hist[b].meta.some
        /\ build # hist[b].meta

\* C7: a SubmitWork processed while the worker has no metadata is answered
\* Err(NoMetaData), MiningWorker.submit is not called, and the step leaves
\* the worker as it was.
C7_NoMetaData ==
    /\ [](\A id \in Ids :
            (/\ call[id].kind = "SubmitWork"
             /\ Processed(id)
             /\ ~hist[id].meta.some)
            => /\ call[id].sent = <<Err("NoMetaData")>>
               /\ hist[id].submit = "none"
               /\ hist[id].seal = <<>>)
    /\ [][(pc = "submit_locked" /\ ~metadata.some)
            => (build' = build /\ generation' = generation)]_vars

C7_Witness ==
    \E id \in Ids :
        /\ call[id].kind = "SubmitWork"
        /\ Processed(id)
        /\ ~hist[id].meta.some
        /\ call[id].st = "got"

\* C8: commands are processed one at a time in the order they were accepted
\* into the queue (a call's id is its rank of acceptance): the processed
\* commands, the one in processing and the queued ones are ranks 1, 2, ...
C8_Fifo ==
    LET order == processed \o (IF cur = 0 THEN <<>> ELSE <<cur>>) \o queue
    IN /\ \A i \in 1..Len(order) : order[i] = i
       /\ (cur # 0) <=> (pc \in {"match", "getwork_reply", "submit_locked"})

C8_Witness ==
    /\ Len(processed) >= 1
    /\ cur # 0
    /\ pc = "match"

\* C9: no accepted command is lost: it is queued, in processing, processed,
\* or its reply channel has closed; a send on the closed queue fails; and
\* every message beyond the channel's buffer has its sender blocked.
C9_NoSilentDrop ==
    /\ \A id \in Ids :
          /\ call[id].st \in {"parked", "awaiting", "got", "cancelled"}
             => (InQueue(id) \/ cur = id \/ Processed(id) \/ call[id].closed)
          /\ call[id].st = "senderr" => (~InQueue(id) /\ call[id].closed)
          /\ call[id].st = "parked" => InQueue(id)
    /\ Len(queue) <= ChannelBuffer + Len(parked)

C9_Witness ==
    /\ Len(queue) > ChannelBuffer
    /\ \E id \in Ids : call[id].st = "parked"

\* C10: once the queue is closed, a caller whose reply is still pending finds
\* its reply channel closed without a value, and every pending caller
\* eventually gets a value or a cancellation.
C10_ClosedMeansCancelled ==
    /\ [](\A id \in Ids :
            (pc = "closed" /\ call[id].st = "awaiting"
             /\ call[id].sent = <<>>) => call[id].closed)
    /\ \A id \in Ids : Pending(id) ~> Settled(id)

C10_Witness ==
    /\ pc = "closed"
    /\ \E id \in Ids :
          /\ call[id].kind = "GetWork"
          /\ call[id].st = "cancelled"
          /\ ~Processed(id)

\* C16: verify never returns an error: its result is Ok(true) or Ok(false),
\* and it is Ok(false) whenever the seal bytes fail to decode.
C16_VerifyNeverErrs ==
    vout.some =>
        /\ vout.v \in {Ok(TRUE), Ok(FALSE)}
        /\ ~decode(vin.seal).ok => vout.v = Ok(FALSE)

C16_Witness ==
    /\ vout = Some(Ok(FALSE))
    /\ ~decode(vin.seal).ok

\* hash * difficulty overflows the U256 range.
C17_Overflows(hash, d) == U256_from_big_endian(hash) > U256Max \div d

\* C17: when the seal's work value times the required difficulty overflows
\* the U256 range, verify answers false and has not invoked the oracle.  A
\* WorkSeal carries two hashes, pow_hash and mix_digest: stated for the
\* seals where both overflow, whichever is taken as the work value.
C17_CheapCheckFirst ==
    (/\ vout.some
     /\ decode(vin.seal).ok
     /\ C17_Overflows(decode(vin.seal).val.pow_hash, vin.difficulty)
     /\ C17_Overflows(decode(vin.seal).val.mix_digest, vin.difficulty))
    => (voracle = <<>> /\ vout.v = Ok(FALSE))

\* C18: an accepted encoded seal with any one byte changed is rejected.
C18_CorruptionRejected ==
    (vin.of # <<>> /\ vout.some) => vout.v = Ok(FALSE)

\* C20: verify answers true only if the difficulty derived from the
\* oracle's raw result is at least the required difficulty.
C20_OracleDifficultyEnforced ==
    (vout.some /\ vout.v = Ok(TRUE)) =>
        LET seal == decode(vin.seal).val
            result == compute_light(seal.header_nr, seal.pow_hash, seal.nonce)
        IN boundary_to_difficulty(result.value) >= vin.difficulty

\* The calls of qlog on a block whose header carries a seal.
SealedCalls(op) ==
    {i \in 1..Len(qlog) :
        /\ qlog[i].op = op
        /\ qlog[i].up
        /\ qlog[i].hash \in 1..Len(headers)
        /\ headers[qlog[i].hash].seal.some}
\* The seal of the block call i is about, its elapsed time, its result.
SealOf(i) == decode(headers[qlog[i].hash].seal.v).val
Elapsed(i) == qlog[i].now - SealOf(i).timestamp

\* C11: for a parent with a decodable seal calc_difficulty returns
\* max(minimum, t), t = d - d/2048 when now - timestamp >= 13 and
\* t = d + d/2048 otherwise, also when timestamp > now.
C11_Retarget ==
    \A i \in SealedCalls("calc_difficulty") :
        LET d == SealOf(i).difficulty
            t == IF Elapsed(i) >= 13 THEN d - d \div 2048
                 ELSE d + d \div 2048
        IN qlog[i].result = Ok(IF t >= 1000000 THEN t ELSE 1000000)

\* C12: every value calc_difficulty returns is at least the minimum
\* difficulty, whatever the parent's difficulty and the elapsed time.
C12_AtLeastMinimum ==
    \A i \in 1..Len(qlog) :
        (qlog[i].op = "calc_difficulty" /\ qlog[i].result.ok)
        => qlog[i].result.val >= 1000000

C12_Witness ==
    \E i \in SealedCalls("calc_difficulty"), j \in SealedCalls("calc_difficulty") :
        /\ SealOf(i).difficulty = 0
        /\ qlog[i].result.ok
        /\ SealOf(j).difficulty > 1000000
        /\ Elapsed(j) >= 13
        /\ qlog[j].result.ok

\* C13: difficulty(block) of a block whose seal verify accepted is at least
\* the minimum floor and is not zero.
C13_DifficultyFloor ==
    \A i \in SealedCalls("difficulty") :
        /\ qlog[i].result.ok
        /\ qlog[i].result.val >= 1000000
        /\ qlog[i].result.val # 0

\* C14: for one parent difficulty, a longer elapsed time never gives a
\* larger calc_difficulty.
C14_Monotone ==
    \A i, j \in SealedCalls("calc_difficulty") :
        (/\ SealOf(i).difficulty = SealOf(j).difficulty
         /\ Elapsed(i) <= Elapsed(j)
         /\ qlog[i].result.ok /\ qlog[j].result.ok)
        => qlog[j].result.val <= qlog[i].result.val

\* C15: for the genesis block, which has no seal, difficulty and
\* calc_difficulty both return the minimum floor, whatever the clock reads.
C15_Genesis ==
    \A i \in 1..Len(qlog) :
        (/\ qlog[i].up
         /\ qlog[i].hash \in 1..Len(headers)
         /\ ~headers[qlog[i].hash].seal.some)
        => /\ headers[qlog[i].hash].number = 0
           /\ qlog[i].result = Ok(1000000)

C15_Witness ==
    /\ Len(qlog) = 2
    /\ qlog[1].op = "difficulty" /\ qlog[1].hash = 1 /\ qlog[1].up
    /\ qlog[2].op = "calc_difficulty" /\ qlog[2].hash = 1 /\ qlog[2].up
    /\ Len(headers) > 1

C21_SealCarriesRpcArgs ==
    \A id \in Ids :
        (call[id].kind = "SubmitWork" /\ hist[id].submit # "none") =>
            LET seal == decode(hist[id].seal).val
                args == call[id].args.v
            IN /\ seal.nonce = args.nonce
               /\ seal.pow_hash = args.pow_hash
               /\ seal.mix_digest = args.mix_digest

\* C22: the coordinator is between a SubmitWork's metadata read and its
\* submit exactly while it holds the worker lock, the pipeline installs no
\* candidate meanwhile, and a command in processing is not overtaken by
\* another.
C22_WorkerAccessLocked ==
    /\ []((pc = "submit_locked") <=> (lock = "svc"))
    /\ [][pc = "submit_locked" => generation' = generation]_vars
    /\ [][cur # 0 => cur' \in {cur, 0}]_vars

C22_Witness ==
    /\ pc = "submit_locked"
    /\ lock = "svc"
    /\ metadata.some
    /\ generation < MaxBuilds
    /\ Len(processed) >= 1

\* C23: the candidate submit attaches the seal to is the one whose metadata
\* the arm read, and the seal's header_nr is that candidate's block number.
C23_SubmitAtomic ==
    \A id \in Ids :
        hist[id].submit # "none" =>
            /\ hist[id].meta.some
            /\ hist[id].bgen = hist[id].meta.v.gen
            /\ decode(hist[id].seal).val.header_nr = hist[id].meta.v.number

C23_Witness ==
    \E id \in Ids :
        /\ hist[id].submit = "ok"
        /\ build.some
        /\ build.v.gen > hist[id].bgen
        /\ build.v.number # hist[id].meta.v.number

\* C24: a SubmitWork whose pow_hash is not the pre_hash of the metadata
\* current when it is processed is not submitted to the worker and is not
\* answered Ok(true).
C24_StaleSolutionRejected ==
    \A id \in Ids :
        (/\ call[id].kind = "SubmitWork"
         /\ Processed(id)
         /\ hist[id].meta.some
         /\ call[id].pow_hash # hist[id].meta.v.pre_hash)
        => /\ hist[id].submit = "none"
           /\ call[id].sent # <<Ok(TRUE)>>

\* C27: a step that changes the worker's candidate is the pipeline's or the
\* submit of a SubmitWork that found metadata: GetWork and SubmitHashrate
\* leave the worker as it was.
C27_OnlySubmitChangesWorker ==
    [][(build' # build /\ generation' = generation)
         => (/\ pc = "submit_locked"
             /\ call[cur].kind = "SubmitWork"
             /\ metadata.some)]_vars

C27_Witness ==
    \E a, b \in Ids :
        /\ call[a].kind = "GetWork" /\ Processed(a)
        /\ hist[a].meta.some /\ build = hist[a].meta
        /\ call[b].kind = "SubmitHashrate" /\ Processed(b)

\* C28: once the queue is closed, the commands that were still queued stay
\* unprocessed: they have read nothing from the worker and got no value,
\* and no command is processed or touches the worker afterwards.
C28_ClosedDropsQueued ==
    /\ [](pc = "closed" =>
            \A id \in Ids :
                (call[id].st # "none" /\ ~Processed(id))
                => (call[id].sent = <<>> /\ hist[id] = NoHist))
    /\ [][pc = "closed" =>
            /\ pc' = "closed"
            /\ processed' = processed
            /\ hist' = hist
            /\ lock' = lock
            /\ (generation' = generation => build' = build)]_vars

C28_Witness ==
    /\ pc = "closed"
    /\ build.some
    /\ \E id \in Ids :
          /\ call[id].kind = "SubmitWork"
          /\ call[id].st = "cancelled"
          /\ ~Processed(id)
          /\ call[id].gen = build.v.gen

\* C25: calc_difficulty on a decodable parent seal neither panics nor
\* wraps: it returns a value, and where timestamp + 13 exceeds the u64
\* range (so no clock reading reaches it) that value is not below the
\* parent's difficulty.
C25_NoOverflow ==
    \A i \in SealedCalls("calc_difficulty") :
        /\ qlog[i].result.ok
        /\ (SealOf(i).timestamp + 13 > U64Max)
           => (qlog[i].result.val >= SealOf(i).difficulty)

\* The calls of qlog the backend answered, on a known header or not.
KnownCalls == {i \in 1..Len(qlog) :
                 qlog[i].up /\ qlog[i].hash \in 1..Len(headers)}
UnknownCalls == {i \in 1..Len(qlog) :
                   qlog[i].up /\ qlog[i].hash \notin 1..Len(headers)}
ReturnsError(i) == ~qlog[i].result.ok /\ qlog[i].result.err = "Other"

\* C26: for a header with number > 0 whose seal is missing or does not
\* decode both functions return an error; for an unknown hash difficulty
\* returns an error and calc_difficulty the minimum floor.
C26_ErrorPaths ==
    /\ \A i \in KnownCalls :
          LET header == headers[qlog[i].hash]
          IN (/\ header.number > 0
              /\ \/ ~header.seal.some
                 \/ Len(header.seal.v) < SealLen)
             => ReturnsError(i)
    /\ \A i \in UnknownCalls :
          IF qlog[i].op = "difficulty" THEN ReturnsError(i)
          ELSE qlog[i].result = Ok(1000000)

C26_Witness ==
    /\ Len(qlog) = 2
    /\ 1 \in KnownCalls
    /\ headers[qlog[1].hash].number > 0
    /\ ~headers[qlog[1].hash].seal.some
    /\ qlog[1].op = "calc_difficulty"
    /\ 2 \in UnknownCalls
    /\ qlog[2].op = "calc_difficulty"

====
